---- MODULE Spec2Model ----
(***************************************************************************)
(* A model of futuresboard/core/utils.py: the signature generator          *)
(* (hashing), the authenticated dispatcher (dispatch_request) and the two  *)
(* request executors (send_public_request, send_signed_request), together  *)
(* with the network they talk to and the callers that invoke them.         *)
(*                                                                         *)
(* Text is a sequence of tokens.  A token is a character or an indivisible *)
(* piece of text (a parameter name, a number's decimal form, a percent     *)
(* escape, a digest), so concatenation is \o and the query string and the  *)
(* URL can be taken apart again.  A keyed hash is a perfect hash: the      *)
(* digest names the secret and the exact text that was signed.             *)
(***************************************************************************)
EXTENDS Integers, Sequences, FiniteSets, TLC

\* Bounds of the model: the last reading of the millisecond clock, and how
\* long (in timeout units) a call without a timeout is followed while the
\* remote side stays silent.
MaxClock == 2
MaxWait == 6

\* timeout=5 in send_public_request.
TIMEOUT == 5

Threads == {"t1", "t2"}

\* The one mapping object that callers keep and pass to several calls.
SharedObj == "p"
Objs == {SharedObj} \cup Threads

VARIABLES
    now,      \* the wall clock read by get_timestamp
    heap,     \* the mapping objects: heap[SharedObj] is the callers' params
              \* mapping, heap[t] the dict a call of t makes for payload=None
    pc,       \* where each thread's call is: idle, entered, waiting, done
    call,     \* the arguments of the thread's call
    ts,       \* the local `timestamp` of a signed call
    entry,    \* the contents of the call's params mapping when it was called
    sent,     \* the requests the call has put on the network (none or one)
    waited,   \* timeout units the call has waited with the remote silent
    resp,     \* what the network gave the call: a body text or a fault
    result    \* what the call gave its caller

vars == <<now, heap, pc, call, ts, entry, sent, waited, resp, result>>

-----------------------------------------------------------------------------
(* Text helpers *)

RECURSIVE Flat(_)
Flat(s) == IF s = <<>> THEN "" ELSE Head(s) \o Flat(Tail(s))

\* f"{x}" of a str: the text itself.
Text(s) == IF s = "" THEN <<>> ELSE <<s>>

\* A mapping value is an int or a str.
IntVal(n) == [int |-> n]
StrVal(s) == [str |-> s]

\* str(v), as urlencode applies it to a value.
Str(v) == IF "int" \in DOMAIN v THEN <<ToString(v.int)>> ELSE v.str

\* quote_plus, token by token: a quote and a blank are escaped, the rest of
\* the tokens used here are safe characters.
QuotePlus(s) ==
    [i \in DOMAIN s |-> CASE s[i] = "'" -> "%27"
                          [] s[i] = " " -> "+"
                          [] OTHER -> s[i]]

RECURSIVE urlencode(_)
urlencode(items) ==
    IF items = <<>> THEN <<>>
    ELSE LET h == Head(items)
             pair == <<h[1], "=">> \o QuotePlus(Str(h[2]))
         IN  IF Len(items) = 1 THEN pair
             ELSE pair \o <<"&">> \o urlencode(Tail(items))

\* The order of str on the parameter names in use.
KeyRank(k) ==
    CASE k = "symbol" -> 1
      [] k = "timestamp" -> 2
      [] k = "type" -> 3

RECURSIVE InsertSorted(_, _)
InsertSorted(x, s) ==
    IF s = <<>> THEN <<x>>
    ELSE IF KeyRank(x[1]) < KeyRank(Head(s)[1]) THEN <<x>> \o s
    ELSE <<Head(s)>> \o InsertSorted(x, Tail(s))

\* sorted(payload.items()): the items by key.
RECURSIVE sorted(_)
sorted(items) ==
    IF items = <<>> THEN <<>>
    ELSE InsertSorted(Head(items), sorted(Tail(items)))

\* query_string.replace("%27", "%22")
ReplaceQuote(s) == [i \in DOMAIN s |-> IF s[i] = "%27" THEN "%22" ELSE s[i]]

\* A dict keeps insertion order: payload[k] = v replaces the value of a key
\* that is present and appends the key otherwise.
HasKey(m, k) == \E i \in DOMAIN m : m[i][1] = k
SetItem(m, k, v) ==
    IF HasKey(m, k)
    THEN [i \in DOMAIN m |-> IF m[i][1] = k THEN <<k, v>> ELSE m[i]]
    ELSE Append(m, <<k, v>>)

-----------------------------------------------------------------------------
(* get_timestamp, hashing, dispatch_request *)

get_timestamp == now

DefaultKeys == [key |-> "", secret |-> ""]

\* hmac.new(secret, message, sha256).hexdigest()
HmacSha256(secret, message) ==
    "hmac-sha256(" \o secret \o "," \o Flat(message) \o ")"

\* A generator that signs the bybit prefix with the key before the timestamp.
hashingKeyFirst(query_string, exchange, timestamp, keys) ==
    IF exchange = "bybit"
    THEN HmacSha256(keys.secret,
                    Text(keys.key) \o <<ToString(timestamp)>> \o <<"5000">>
                        \o query_string)
    ELSE HmacSha256(keys.secret, query_string)

hashing(query_string, exchange, timestamp, keys) ==
    IF exchange = "bybit"
    THEN HmacSha256(keys.secret,
                    <<ToString(timestamp)>> \o Text(keys.key) \o <<"5000">>
                        \o query_string)
    ELSE HmacSha256(keys.secret, query_string)

\* The verb table of dispatch_request and its .get(http_method, "GET").
VerbTable ==
    [GET |-> "session.get", DELETE |-> "session.delete",
     PUT |-> "session.put", POST |-> "session.post"]

\* A dispatcher that falls back to the GET handler for a verb it does not know.
VerbLookupFallsBackToGet(http_method) ==
    IF http_method \in DOMAIN VerbTable THEN VerbTable[http_method]
    ELSE VerbTable["GET"]

VerbLookup(http_method) ==
    IF http_method \in DOMAIN VerbTable THEN VerbTable[http_method] ELSE "GET"

\* Whether what dispatch_request returned can be called: a bound session
\* method can, a str cannot.
Callable(f) == \E v \in DOMAIN VerbTable : VerbTable[v] = f

VerbOf(f) == CHOOSE v \in DOMAIN VerbTable : VerbTable[v] = f

dispatch_request(http_method, key, signature, timestamp) ==
    [fn |-> VerbLookup(http_method),
     headers |->
        [ContentType |-> "application/json;charset=utf-8",
         XMbxApikey |-> key,
         XBapiApiKey |-> key,
         XBapiSign |-> signature,
         XBapiSignType |-> "2",
         XBapiTimestamp |-> ToString(timestamp),
         XBapiRecvWindow |-> "5000"]]

-----------------------------------------------------------------------------
(* The network's answers and response.json() *)

ResponseHeaders == "response-headers"

B_ok == "{\"retCode\": 0, \"result\": {}}"
B_code == "{\"code\": 1, \"msg\": \"bad\"}"
B_codeEmptyMsg == "{\"code\": 200, \"msg\": \"\"}"
B_codeNoMsg == "{\"code\": 1}"
B_ret == "{\"retCode\": 10001, \"retMsg\": \"oops\"}"
B_retNoMsg == "{\"retCode\": 10001}"
B_number == "5"
B_html == "<html>busy</html>"

BodyTexts ==
    {B_ok, B_code, B_codeEmptyMsg, B_codeNoMsg, B_ret, B_retNoMsg, B_number,
     B_html}

JsonObject(fields) == [type |-> "object", fields |-> fields]
JsonNumber(n) == [type |-> "number", fields |-> [value |-> n]]

\* response.json(): the decoded body, or nothing when the text is not JSON.
JsonDecode(text) ==
    CASE text = B_ok -> <<JsonObject([retCode |-> 0, result |-> "{}"])>>
      [] text = B_code -> <<JsonObject([code |-> 1, msg |-> "bad"])>>
      [] text = B_codeEmptyMsg -> <<JsonObject([code |-> 200, msg |-> ""])>>
      [] text = B_codeNoMsg -> <<JsonObject([code |-> 1])>>
      [] text = B_ret -> <<JsonObject([retCode |-> 10001, retMsg |-> "oops"])>>
      [] text = B_retNoMsg -> <<JsonObject([retCode |-> 10001])>>
      [] text = B_number -> <<JsonNumber(5)>>
      [] OTHER -> <<>>

\* The faults the transport raises on its own account; Timeout is raised
\* when the call's timeout runs out.
TransportFaults == {"ConnectionError", "TooManyRedirects"}

NoResponse == [kind |-> "none", text |-> ""]
BodyResponse(text) == [kind |-> "body", text |-> text]
FaultResponse(e) == [kind |-> "fault", text |-> e]

-----------------------------------------------------------------------------
(* What a call gives its caller *)

NoError == [code |-> 0, msg |-> ""]

NoResult == [kind |-> "none", value |-> <<>>, exc |-> "", err |-> NoError,
             log |-> ""]

\* return headers, body
Returned(value) ==
    [kind |-> "return", value |-> value, exc |-> "", err |-> NoError,
     log |-> ""]

\* An exception leaving the try body (err: the fields of HTTPRequestError).
Thrown(exc, err) ==
    [kind |-> "raise", value |-> <<>>, exc |-> exc, err |-> err, log |-> ""]

\* BlankResponse().content
empty_response == ""

\* requests.exceptions: every fault named here is a RequestException;
\* HTTPRequestError, KeyError and TypeError are not.
IsInstance(exc, class) ==
    \/ exc = class
    \/ /\ class = "RequestException"
       /\ exc \in {"ConnectionError", "Timeout", "TooManyRedirects",
                   "JSONDecodeError"}

\* The except clauses of the executors, in the order written.
PublicHandlers ==
    << <<"ConnectionError", "Connection error">>,
       <<"Timeout", "Request timed out">>,
       <<"TooManyRedirects", "Too many redirects">>,
       <<"JSONDecodeError", "JSON decode error">>,
       <<"RequestException", "Request exception">>,
       <<"HTTPRequestError", "HTTP Request error">> >>

SignedHandlers ==
    << <<"ConnectionError", "Connection error">>,
       <<"Timeout", "Request timed out">>,
       <<"TooManyRedirects", "Too many redirects">>,
       <<"RequestException", "Request exception">>,
       <<"JSONDecodeError", "JSON decode error">>,
       <<"HTTPRequestError", "HTTP Request error">> >>

\* try ... except ...: return empty_response, empty_response.  The first
\* clause that matches logs its warning; an exception no clause matches
\* leaves the executor.
Handle(handlers, o) ==
    IF o.kind # "raise" THEN o
    ELSE LET hits == {i \in DOMAIN handlers : IsInstance(o.exc, handlers[i][1])}
         IN  IF hits = {} THEN o
             ELSE LET first == CHOOSE i \in hits : \A j \in hits : i <= j
                  IN  [kind |-> "return",
                       value |-> <<empty_response, empty_response>>,
                       exc |-> "", err |-> o.err,
                       log |-> handlers[first][2]]

\* The try body of send_public_request once the response is in.
PublicBody(text, json) ==
    IF ~json THEN Returned(<<ResponseHeaders, text>>)
    ELSE LET dec == JsonDecode(text) IN
    IF dec = <<>> THEN Thrown("JSONDecodeError", NoError)
    ELSE LET json_response == dec[1]
             o == json_response.fields IN
    IF json_response.type # "object" THEN Thrown("TypeError", NoError)
    ELSE IF "code" \in DOMAIN o /\ "msg" \in DOMAIN o /\ o.msg # ""
    THEN Thrown("HTTPRequestError", [code |-> o.code, msg |-> o.msg])
    ELSE IF "retCode" \in DOMAIN o /\ o.retCode # 0
    THEN IF "retMsg" \in DOMAIN o
         THEN Thrown("HTTPRequestError", [code |-> o.retCode, msg |-> o.retMsg])
         ELSE Thrown("KeyError", NoError)
    ELSE Returned(<<ResponseHeaders, json_response>>)

\* The try body of send_signed_request once the response is in.
SignedBody(text) ==
    LET dec == JsonDecode(text) IN
    IF dec = <<>> THEN Thrown("JSONDecodeError", NoError)
    ELSE LET json_response == dec[1]
             o == json_response.fields IN
    IF json_response.type # "object" THEN Thrown("TypeError", NoError)
    ELSE IF "code" \in DOMAIN o
    THEN IF "msg" \in DOMAIN o
         THEN Thrown("HTTPRequestError", [code |-> o.code, msg |-> o.msg])
         ELSE Thrown("KeyError", NoError)
    ELSE IF "retCode" \in DOMAIN o /\ o.retCode # 0
    THEN IF "retMsg" \in DOMAIN o
         THEN Thrown("HTTPRequestError", [code |-> o.retCode, msg |-> o.retMsg])
         ELSE Thrown("KeyError", NoError)
    ELSE Returned(<<ResponseHeaders, json_response>>)

-----------------------------------------------------------------------------
(* The callers and their arguments *)

BaseUrl == <<"https://api.exchange">>
UrlPath == <<"/v5/position/list">>

Credentials == [key |-> "AK", secret |-> "SK"]

\* The argument sets the callers draw from.  An optional argument is <<>>
\* for None and <<x>> for the value x.
Methods == {"GET", "POST", "TRACE"}
Exchanges == {"binance", "bybit"}
PayloadArgs == {<<>>, <<SharedObj>>}
KeysArgs == {<<>>, <<Credentials>>}

\* What the callers' mapping holds when they start: nothing, or two
\* parameters put in an order that is not the sorted one.
CallerMappings ==
    { <<>>,
      << <<"type", StrVal(<<"'", "linear", "'">>)>>,
         <<"symbol", StrVal(<<"BTCUSDT">>)>> >> }

NoCall ==
    [fn |-> "none", method |-> "", exchange |-> "", json |-> TRUE,
     keys |-> DefaultKeys, ref |-> SharedObj]

Init ==
    /\ now = 1
    /\ \E m \in CallerMappings :
           heap = [o \in Objs |-> IF o = SharedObj THEN m ELSE <<>>]
    /\ pc = [t \in Threads |-> "idle"]
    /\ call = [t \in Threads |-> NoCall]
    /\ ts = [t \in Threads |-> -1]
    /\ entry = [t \in Threads |-> <<>>]
    /\ sent = [t \in Threads |-> <<>>]
    /\ waited = [t \in Threads |-> 0]
    /\ resp = [t \in Threads |-> NoResponse]
    /\ result = [t \in Threads |-> NoResult]

\* The clock moves on.
Tick ==
    /\ now < MaxClock
    /\ now' = now + 1
    /\ UNCHANGED <<heap, pc, call, ts, entry, sent, waited, resp, result>>

-----------------------------------------------------------------------------
(* send_public_request *)

\* url += url_path; url = url + "?" + query_string when there is one.
PublicUrl(query_string) ==
    BaseUrl \o UrlPath
        \o (IF query_string # <<>> THEN <<"?">> \o query_string ELSE <<>>)

\* The executor up to dispatch_request(method)(url=url, timeout=5): the
\* request goes out, or calling what dispatch_request returned raises.
PublicRequest(t, method, payloadArg, json) ==
    /\ pc[t] = "idle"
    /\ LET ref == IF payloadArg = <<>> THEN t ELSE payloadArg[1]
           payload == IF payloadArg = <<>> THEN <<>> ELSE heap[ref]
           query_string == urlencode(payload)
           url == PublicUrl(query_string)
           d == dispatch_request(method, "", "", -1)
       IN  /\ call' = [call EXCEPT ![t] =
                          [fn |-> "public", method |-> method,
                           exchange |-> "", json |-> json,
                           keys |-> DefaultKeys, ref |-> ref]]
           /\ entry' = [entry EXCEPT ![t] = payload]
           /\ IF Callable(d.fn)
              THEN /\ sent' = [sent EXCEPT ![t] =
                                 <<[verb |-> VerbOf(d.fn), url |-> url,
                                    headers |-> d.headers,
                                    timeout |-> <<TIMEOUT>>]>>]
                   /\ pc' = [pc EXCEPT ![t] = "waiting"]
                   /\ UNCHANGED result
              ELSE /\ result' = [result EXCEPT ![t] =
                                   Handle(PublicHandlers,
                                          Thrown("TypeError", NoError))]
                   /\ pc' = [pc EXCEPT ![t] = "done"]
                   /\ UNCHANGED sent
    /\ UNCHANGED <<now, heap, ts, waited, resp>>

-----------------------------------------------------------------------------
(* send_signed_request *)

\* An executor that puts the timestamp into the mapping for bybit only.
InjectTimestampForBybit(exchange, payload, timestamp) ==
    IF exchange = "bybit"
    THEN SetItem(payload, "timestamp", IntVal(timestamp))
    ELSE payload

\* if exchange == "binance": payload["timestamp"] = timestamp
InjectTimestamp(exchange, payload, timestamp) ==
    IF exchange = "binance"
    THEN SetItem(payload, "timestamp", IntVal(timestamp))
    ELSE payload

\* urlencode(OrderedDict(sorted(payload.items()))).replace("%27", "%22")
CanonicalQuery(payload) == ReplaceQuote(urlencode(sorted(payload)))

\* url = f"{base_url}{url_path}?{query_string}", and for binance
\* url += f"&signature={hashing(query_string, exchange, keys=keys)}"
SignedUrl(exchange, query_string, keys) ==
    BaseUrl \o UrlPath \o <<"?">> \o query_string
        \o (IF exchange = "binance"
            THEN <<"&signature=", hashing(query_string, exchange, -1, keys)>>
            ELSE <<>>)

\* The executor from its first line to payload["timestamp"] = timestamp:
\* the defaults, the timestamp, and for binance the write into the mapping.
SignedEnter(t, method, payloadArg, exchange, keysArg) ==
    /\ pc[t] = "idle"
    /\ LET ref == IF payloadArg = <<>> THEN t ELSE payloadArg[1]
           payload == IF payloadArg = <<>> THEN <<>> ELSE heap[ref]
           timestamp == get_timestamp
       IN  /\ call' = [call EXCEPT ![t] =
                          [fn |-> "signed", method |-> method,
                           exchange |-> exchange, json |-> TRUE,
                           keys |-> IF keysArg = <<>> THEN DefaultKeys
                                    ELSE keysArg[1],
                           ref |-> ref]]
           /\ entry' = [entry EXCEPT ![t] = payload]
           /\ ts' = [ts EXCEPT ![t] = timestamp]
           /\ heap' = [heap EXCEPT ![ref] =
                          InjectTimestamp(exchange, payload, timestamp)]
    /\ pc' = [pc EXCEPT ![t] = "entered"]
    /\ UNCHANGED <<now, sent, waited, resp, result>>

\* The executor from the encoding of the mapping to
\* dispatch_request(...)(**params): the request goes out with no timeout,
\* or calling what dispatch_request returned raises.
SignedDispatch(t) ==
    /\ pc[t] = "entered"
    /\ LET c == call[t]
           query_string == CanonicalQuery(heap[c.ref])
           url == SignedUrl(c.exchange, query_string, c.keys)
           d == dispatch_request(c.method, c.keys.key,
                                 hashing(query_string, c.exchange, ts[t],
                                         c.keys),
                                 ts[t])
       IN  IF Callable(d.fn)
           THEN /\ sent' = [sent EXCEPT ![t] =
                              <<[verb |-> VerbOf(d.fn), url |-> url,
                                 headers |-> d.headers, timeout |-> <<>>]>>]
                /\ pc' = [pc EXCEPT ![t] = "waiting"]
                /\ UNCHANGED result
           ELSE /\ result' = [result EXCEPT ![t] =
                                Handle(SignedHandlers,
                                       Thrown("TypeError", NoError))]
                /\ pc' = [pc EXCEPT ![t] = "done"]
                /\ UNCHANGED sent
    /\ UNCHANGED <<now, heap, call, ts, entry, waited, resp>>

-----------------------------------------------------------------------------
(* The network, and the rest of the executors *)

Handlers(fn) == IF fn = "public" THEN PublicHandlers ELSE SignedHandlers

\* What the executor makes of the body it received.
TryBody(c, text) ==
    IF c.fn = "public" THEN PublicBody(text, c.json) ELSE SignedBody(text)

Finish(t, r, o) ==
    /\ resp' = [resp EXCEPT ![t] = r]
    /\ result' = [result EXCEPT ![t] = Handle(Handlers(call[t].fn), o)]
    /\ pc' = [pc EXCEPT ![t] = "done"]
    /\ waited' = [waited EXCEPT ![t] = 0]
    /\ UNCHANGED <<now, heap, call, ts, entry, sent>>

\* A response arrives: the executor decodes and classifies it and returns.
Receive(t, text) ==
    /\ pc[t] = "waiting"
    /\ Finish(t, BodyResponse(text), TryBody(call[t], text))

\* The transport fails: the connection breaks, or the redirects do not end.
TransportFault(t, e) ==
    /\ pc[t] = "waiting"
    /\ Finish(t, FaultResponse(e), Thrown(e, NoError))

\* Another unit of time passes with nothing from the remote side.  A call
\* with a timeout is not left waiting beyond it.
Wait(t) ==
    /\ pc[t] = "waiting"
    /\ waited[t] < (IF sent[t][1].timeout = <<>> THEN MaxWait
                    ELSE sent[t][1].timeout[1])
    /\ waited' = [waited EXCEPT ![t] = @ + 1]
    /\ UNCHANGED <<now, heap, pc, call, ts, entry, sent, resp, result>>

\* The timeout of the request runs out: requests raises Timeout.
TimeoutExpires(t) ==
    /\ pc[t] = "waiting"
    /\ sent[t][1].timeout # <<>>
    /\ waited[t] = sent[t][1].timeout[1]
    /\ Finish(t, FaultResponse("Timeout"), Thrown("Timeout", NoError))

\* The caller takes the result (or the exception); the thread is free for
\* its next call, and the dict the call made for payload=None is gone.
Return(t) ==
    /\ pc[t] = "done"
    /\ pc' = [pc EXCEPT ![t] = "idle"]
    /\ call' = [call EXCEPT ![t] = NoCall]
    /\ ts' = [ts EXCEPT ![t] = -1]
    /\ entry' = [entry EXCEPT ![t] = <<>>]
    /\ sent' = [sent EXCEPT ![t] = <<>>]
    /\ resp' = [resp EXCEPT ![t] = NoResponse]
    /\ result' = [result EXCEPT ![t] = NoResult]
    /\ heap' = [heap EXCEPT ![t] = <<>>]
    /\ UNCHANGED <<now, waited>>

-----------------------------------------------------------------------------
(* The specifications *)

OthersIdle(t) == \A u \in Threads \ {t} : pc[u] = "idle"

CallPublic(t) ==
    \E method \in Methods, payloadArg \in PayloadArgs, json \in BOOLEAN :
        PublicRequest(t, method, payloadArg, json)

CallSigned(t) ==
    \E method \in Methods, payloadArg \in PayloadArgs,
       exchange \in Exchanges, keysArg \in KeysArgs :
        SignedEnter(t, method, payloadArg, exchange, keysArg)

Proceed(t) ==
    \/ SignedDispatch(t)
    \/ \E text \in BodyTexts : Receive(t, text)
    \/ \E e \in TransportFaults : TransportFault(t, e)
    \/ Wait(t)
    \/ TimeoutExpires(t)
    \/ Return(t)

\* Calls made one after another, from either thread: a call starts when no
\* other call is in progress.
Next ==
    \/ Tick
    \/ \E t \in Threads : OthersIdle(t) /\ CallPublic(t)
    \/ \E t \in Threads : OthersIdle(t) /\ CallSigned(t)
    \/ \E t \in Threads : Proceed(t)

Spec == Init /\ [][Next]_vars

\* Signed calls made from two threads at any time, so that they overlap in
\* every way.  The verb is one the dispatcher knows and the remote side
\* answers at once: what the network does to a call is covered by Spec.
ConcCallSigned(t) ==
    \E payloadArg \in PayloadArgs, exchange \in Exchanges,
       keysArg \in KeysArgs :
        SignedEnter(t, "GET", payloadArg, exchange, keysArg)

ConcNext ==
    \/ Tick
    \/ \E t \in Threads : ConcCallSigned(t)
    \/ \E t \in Threads : SignedDispatch(t)
    \/ \E t \in Threads : \E text \in BodyTexts : Receive(t, text)
    \/ \E t \in Threads : Return(t)

ConcSpec == Init /\ [][ConcNext]_vars

-----------------------------------------------------------------------------
(* Reading a request as its receiver does *)

\* The request a call has on the network.
Request(t) == sent[t][1]

HasSent(t) == sent[t] # <<>>

\* Where the '?' of a URL is (0: nowhere).
QueryMark(url) ==
    IF \E i \in DOMAIN url : url[i] = "?"
    THEN CHOOSE i \in DOMAIN url : url[i] = "?" ELSE 0

HasSignature(url) ==
    Len(url) >= 2 /\ url[Len(url) - 1] = "&signature="

SignatureOf(url) == url[Len(url)]

\* What stands between the '?' and the &signature= suffix (or the end).
QueryOf(url) ==
    SubSeq(url, QueryMark(url) + 1,
           IF HasSignature(url) THEN Len(url) - 2 ELSE Len(url))

\* The places of a query string where a key=value pair starts.
PairStarts(q) ==
    {i \in DOMAIN q :
        /\ i + 1 \in DOMAIN q
        /\ q[i + 1] = "="
        /\ (i = 1 \/ q[i - 1] = "&")}

HasParam(q, k) == \E i \in PairStarts(q) : q[i] = k

\* The value of parameter k is the one token v.
ParamIs(q, k, v) ==
    \E i \in PairStarts(q) :
        /\ q[i] = k
        /\ i + 2 \in DOMAIN q
        /\ q[i + 2] = v
        /\ (i + 3 \in DOMAIN q => q[i + 3] = "&")

IsSigned(t) == call[t].fn = "signed"

\* The call gave its caller the pair of two empty strings.
Degraded(t) ==
    /\ result[t].kind = "return"
    /\ result[t].value[1] = ""
    /\ result[t].value[2] = ""

\* The envelope rule of the classifier, on a decoded object.
EnvelopeA(o) == "code" \in DOMAIN o /\ "msg" \in DOMAIN o /\ o.msg # ""
EnvelopeB(o) == "retCode" \in DOMAIN o /\ o.retCode # 0

IsJsonObject(text) ==
    JsonDecode(text) # <<>> /\ JsonDecode(text)[1].type = "object"

FieldsOf(text) == JsonDecode(text)[1].fields

KnownVerbs == {"GET", "DELETE", "PUT", "POST"}

-----------------------------------------------------------------------------
(* The claims *)

\* C1: in both executors every failure - a transport fault, a body that is
\* not JSON, or an error envelope in the decoded body - ends with the call
\* returning ("", ""); none is raised to the caller.
C1_EveryFailureIsDegraded ==
    \A t \in Threads :
        (/\ pc[t] = "done"
         /\ call[t].json
         /\ \/ resp[t].kind = "fault"
            \/ /\ resp[t].kind = "body"
               /\ \/ JsonDecode(resp[t].text) = <<>>
                  \/ /\ IsJsonObject(resp[t].text)
                     /\ \/ EnvelopeA(FieldsOf(resp[t].text))
                        \/ EnvelopeB(FieldsOf(resp[t].text)))
        => Degraded(t)

\* An envelope that is complete: msg comes with code, retMsg with a retCode
\* other than 0.
CompleteEnvelope(o) ==
    /\ "code" \in DOMAIN o => "msg" \in DOMAIN o
    /\ "retCode" \in DOMAIN o => "retMsg" \in DOMAIN o \/ o.retCode = 0

\* C2: both executors classify a decoded body by one rule: (a) code with a
\* non-empty msg is a failure carrying code and msg, (b) a retCode other
\* than 0 is a failure carrying retCode and retMsg, (c) anything else is
\* returned as (headers, body) with the body unchanged; so code with an
\* empty msg is a success in send_signed_request as in send_public_request.
\* Stated for the complete envelopes.
C2_SameClassificationRule ==
    \A t \in Threads :
        (/\ pc[t] = "done"
         /\ call[t].json
         /\ resp[t].kind = "body"
         /\ IsJsonObject(resp[t].text)
         /\ CompleteEnvelope(FieldsOf(resp[t].text)))
        => LET o == FieldsOf(resp[t].text) IN
           IF EnvelopeA(o)
           THEN Degraded(t) /\ result[t].err = [code |-> o.code, msg |-> o.msg]
           ELSE IF EnvelopeB(o)
           THEN /\ Degraded(t)
                /\ result[t].err = [code |-> o.retCode, msg |-> o.retMsg]
           ELSE /\ result[t].kind = "return"
                /\ result[t].value[1] = ResponseHeaders
                /\ result[t].value[2] = JsonObject(o)

\* C3: no call of either executor waits on a silent remote side beyond the
\* 5-unit timeout.
C3_NoCallWaitsBeyondTimeout ==
    \A t \in Threads : pc[t] = "waiting" => waited[t] <= 5

\* C4: a call whose verb is not GET, DELETE, PUT or POST sends no request.
C4_UnknownVerbSendsNothing ==
    \A t \in Threads :
        (call[t].fn # "none" /\ call[t].method \notin KnownVerbs)
        => ~HasSent(t)

C4_Witness ==
    \E t \in Threads :
        /\ pc[t] = "done"
        /\ IsSigned(t)
        /\ call[t].method = "TRACE"
        /\ ~HasSent(t)

\* The query string a signed call sends when it runs alone.
AloneQuery(t) ==
    CanonicalQuery(InjectTimestamp(call[t].exchange, entry[t], ts[t]))

\* C5: the request a signed call sends is the one the call would send
\* running alone: built from the mapping as the call received it and from
\* the timestamp the call itself took.
C5_CallsAreIndependent ==
    \A t \in Threads :
        (IsSigned(t) /\ HasSent(t))
        => /\ QueryOf(Request(t).url) = AloneQuery(t)
           /\ Request(t).headers.XBapiTimestamp = ToString(ts[t])
           /\ Request(t).headers.XBapiSign =
                  hashing(AloneQuery(t), call[t].exchange, ts[t], call[t].keys)

\* C6 as stated: the query string of every signed request holds at least
\* one key=value pair.
C6_SignedQueryNeverEmpty ==
    \A t \in Threads :
        (IsSigned(t) /\ HasSent(t))
        => PairStarts(QueryOf(Request(t).url)) # {}

\* C6 amended: the query string of every signed request of the standard
\* scheme (binance) holds at least one key=value pair, the timestamp.
C6_StandardQueryNeverEmpty ==
    \A t \in Threads :
        (IsSigned(t) /\ HasSent(t) /\ call[t].exchange = "binance")
        => /\ QueryMark(Request(t).url) > 0
           /\ HasParam(QueryOf(Request(t).url), "timestamp")

C6_Witness ==
    \E t \in Threads :
        /\ IsSigned(t) /\ HasSent(t)
        /\ call[t].exchange = "binance"
        /\ call[t].ref = t
        /\ entry[t] = <<>>

\* C7: the URL of a signed request carries a timestamp parameter (the
\* call's own) and ends with &signature=<digest> for binance, and carries
\* neither for any other exchange.
C7_UrlAuthOnlyForStandardScheme ==
    \A t \in Threads :
        (IsSigned(t) /\ HasSent(t))
        => LET url == Request(t).url
               q == QueryOf(url)
           IN  IF call[t].exchange = "binance"
               THEN /\ ParamIs(q, "timestamp", ToString(ts[t]))
                    /\ HasSignature(url)
               ELSE /\ ~HasParam(q, "timestamp")
                    /\ ~HasSignature(url)

\* C8: the signature of a signed request can be recomputed from what the
\* request itself carries: for binance the &signature value and X-BAPI-SIGN
\* are sign(secret, query string of the URL); for bybit X-BAPI-SIGN is
\* sign(secret, X-BAPI-TIMESTAMP + X-BAPI-API-KEY + X-BAPI-RECV-WINDOW +
\* query string of the URL).
C8_SignatureRecomputable ==
    \A t \in Threads :
        (IsSigned(t) /\ HasSent(t))
        => LET url == Request(t).url
               h == Request(t).headers
               secret == call[t].keys.secret
           IN  IF call[t].exchange = "binance"
               THEN /\ HasSignature(url)
                    /\ SignatureOf(url) = HmacSha256(secret, QueryOf(url))
                    /\ h.XBapiSign = HmacSha256(secret, QueryOf(url))
               ELSE h.XBapiSign =
                        HmacSha256(secret,
                                   Text(h.XBapiTimestamp) \o Text(h.XBapiApiKey)
                                       \o Text(h.XBapiRecvWindow)
                                       \o QueryOf(url))

C8_Witness ==
    \E t \in Threads :
        /\ IsSigned(t) /\ HasSent(t)
        /\ call[t].exchange = "bybit"
        /\ call[t].keys = Credentials
        /\ HasParam(QueryOf(Request(t).url), "symbol")

\* C9: whatever the verb and the body, a call of either executor ends by
\* returning a pair; no exception reaches the caller.
C9_ExecutorsAreTotal ==
    \A t \in Threads : pc[t] = "done" => result[t].kind = "return"

\* C10: send_signed_request leaves the callers' params mapping as it is: no
\* step of any call changes what the mapping holds.
C10_MappingUnchanged ==
    [][heap'[SharedObj] = heap[SharedObj]]_vars

====
